---- MODULE Spec2Model ----
(***************************************************************************)
(* Semantic-distance pipeline of psych-audio:                              *)
(*   evaluation/embeddings/util.py  (validity filter, sentence encoder,    *)
(*   pairwise distances, compute_distances, random baseline, loaders)      *)
(*   evaluation/embeddings/config.py (dimension table F)                   *)
(* and the transcript preprocessing it depends on:                         *)
(*   preproc/util.py (canonicalize, digits_to_words)                       *)
(*   preproc/03_create_gt_json.py (gt2dict, get_subphrases,                *)
(*   get_mmss_from_time)                                                   *)
(*                                                                         *)
(* Floats are modelled as records [kind, v]:                               *)
(*   kind = "fin"  : a finite number, v its value in a fixed unit          *)
(*   kind = "nan"  : NaN                                                   *)
(*   kind = "inf"  : v = 1 is +inf, v = -1 is -inf                         *)
(*   kind = "none" : Python's None                                         *)
(***************************************************************************)
EXTENDS Integers, Sequences, FiniteSets, TLC

VARIABLES
    \* ---- validity filter (is_valid_distance and the two inline filters)
    number,        \* the scalar handed to the filter
    validRes,      \* result of is_valid_distance(number), "unset" before the call
    metricRes,     \* keep/drop decision of pairwise_metric's inline filter
    wmdRes,        \* keep/drop decision of pairwise_wmd's inline filter
    \* ---- sentence encoder (encode_from_dict, batch_encode)
    embedding_name, \* 'word2vec' or 'glove'
    model,          \* the embedding dictionary: word -> vector
    keys,           \* the vocabulary set handed to the encoder
    sentence,       \* argument of encode_from_dict
    embedding,      \* what encode_from_dict returned ("pending" before the call)
    sentences,      \* argument of batch_encode
    embeddings,     \* batch_encode's (N, F) matrix
    bi,             \* batch_encode's loop index i (0-based)
    bpc,            \* batch_encode's position
    \* ---- pairwise distances (pairwise_metric, pairwise_wmd)
    pfn,            \* which of the two functions was called
    A,              \* pairwise_metric: the (N, F) matrix
    metric,         \* pairwise_metric: the metric name handed to cdist
    dists,          \* pairwise_metric: cdist(A, A); pairwise_wmd: unused
    sel,            \* pairwise_metric: zip(idx1, idx2), the selected (row, column) pairs
    flat,           \* the unfiltered distances, in the order they are filtered
    clean,          \* the kept distances (clean / dists of the code)
    fi,             \* pairwise_metric: number of elements of flat already filtered
    psentences,     \* pairwise_wmd: the sentences
    wi,             \* pairwise_wmd: loop index i
    wj,             \* pairwise_wmd: loop index j
    ppc,            \* position inside the called function
    \* ---- compute_distances (uses model and keys of the encoder)
    sentence1,      \* first sentence
    sentence2,      \* second sentence
    emd,            \* what model.wmdistance returned
    embed1,         \* encode_from_dict of sentence1
    embed2,         \* encode_from_dict of sentence2
    cosine,         \* None or the cosine distance of the two embeddings
    dpc,            \* position inside compute_distances
    \* ---- random_sentences
    rn,             \* argument n
    use_corpus,     \* argument use_corpus
    paired,         \* the loaded corpus: paired[gid].gt, gids are 1..Len(paired)
    idxs,           \* the indices np.random.choice drew (0-based)
    rsentences,     \* the local list "sentences"
    ri,             \* number of idxs already consumed by the loop
    rerr,           \* the exception raised, "none" if none
    rpc,            \* position inside random_sentences
    \* ---- canonicalize and digits_to_words
    digits,         \* argument of digits_to_words
    dres,           \* what digits_to_words returned, Unset before the call
    ctext,          \* argument of canonicalize: the digits inside a sentence
    cres,           \* what canonicalize returned, Unset before the call
    \* ---- random_sentences, use_corpus=False
    vocab_lines,    \* the lines of the vocabulary file
    vocab,          \* the local list "vocab"
    \* ---- load_embedding_model and load_glove
    lname,          \* argument embedding_name of load_embedding_model
    glove_lines,    \* the lines of the GloVe text file
    lbound,         \* TRUE once the locals model and keys are assigned
    lmodel,         \* the dictionary load_glove builds: entries [word, vec]
    lkeys,          \* the local "keys"
    li,             \* number of file lines already read
    lerr,           \* the exception raised, "none" if none
    lpc,            \* position inside load_embedding_model
    \* ---- gt2dict, get_subphrases and get_mmss_from_time
    pieces,         \* how the line was written: timestamps and their texts
    line,           \* one stripped line of the transcript file
    meta,           \* get_subphrases: the spans of the matches, as used
    subphrases,     \* what get_subphrases returned: pairs <<ts, text>>
    gi,             \* number of subphrases gt2dict has converted
    results,        \* the entries gt2dict appended: [startTime, transcript]
    gerr,           \* the exception raised, "none" if none
    gpc             \* position inside gt2dict

validVars == <<number, validRes, metricRes, wmdRes>>
encodeVars == <<embedding_name, model, keys, sentence, embedding, sentences, embeddings, bi, bpc>>
pairVars == <<pfn, A, metric, dists, sel, flat, clean, fi, psentences, wi, wj, ppc>>
distVars == <<sentence1, sentence2, emd, embed1, embed2, cosine, dpc>>
randVars == <<rn, use_corpus, paired, idxs, rsentences, ri, rerr, rpc>>
canonVars == <<digits, dres, ctext, cres>>
vocabVars == <<vocab_lines, vocab>>
loadVars == <<lname, glove_lines, lbound, lmodel, lkeys, li, lerr, lpc>>
gtVars == <<pieces, line, meta, subphrases, gi, results, gerr, gpc>>
vars == <<validVars, encodeVars, pairVars, distVars, randVars, canonVars, vocabVars, loadVars, gtVars>>


-----------------------------------------------------------------------------
(* Bounds *)
MaxAbs == 20            \* finite distances range over -MaxAbs..MaxAbs
MaxLen == 5             \* characters of a sentence handed to encode_from_dict
MaxBatch == 2           \* sentences handed to batch_encode
MaxBatchLen == 2        \* characters of a sentence handed to batch_encode
MaxRows == 3            \* rows of the matrix handed to pairwise_metric
MaxSentences == 3       \* sentences handed to pairwise_wmd
MaxDistLen == 2         \* characters of a sentence handed to compute_distances
MaxCorpus == 3          \* entries of the corpus random_sentences loads
MaxN == 3               \* the number of sentences asked of random_sentences
MaxDigits == 2          \* digits of a number handed to digits_to_words

-----------------------------------------------------------------------------
(* Float values *)
Fin(x) == [kind |-> "fin", v |-> x]
NaN == [kind |-> "nan", v |-> 0]
PosInf == [kind |-> "inf", v |-> 1]
NegInf == [kind |-> "inf", v |-> -1]
None == [kind |-> "none", v |-> 0]

FiniteFloats == {Fin(x) : x \in -MaxAbs..MaxAbs}
Floats == FiniteFloats \cup {NaN, PosInf, NegInf}
FloatsOrNone == Floats \cup {None}

\* math.isnan / math.isinf
isnan(x) == x.kind = "nan"
isinf(x) == x.kind = "inf"

\* Python float comparison against the literal 0 (any comparison with NaN is False)
LeZero(x) == (x.kind = "fin" /\ x.v <= 0) \/ (x.kind = "inf" /\ x.v < 0)
LtZero(x) == (x.kind = "fin" /\ x.v < 0) \/ (x.kind = "inf" /\ x.v < 0)

-----------------------------------------------------------------------------
(* Validity filter *)

\* util.py is_valid_distance
is_valid_distance(n) ==
    IF n.kind = "none" THEN FALSE
    ELSE IF isnan(n) THEN FALSE
    ELSE IF isinf(n) THEN FALSE
    ELSE IF LtZero(n) THEN FALSE
    ELSE TRUE

\* pairwise_metric: if math.isnan(val) or val <= 0 or math.isinf(val): continue
MetricDrops(val) == isnan(val) \/ LeZero(val) \/ isinf(val)

\* the inline filter with "d < 0" in place of "d <= 0"
WmdDrops_lt(d) == isnan(d) \/ LtZero(d) \/ isinf(d)

\* pairwise_wmd: if math.isnan(d) or d <= 0 or math.isinf(d): continue
WmdDrops(d) == isnan(d) \/ LeZero(d) \/ isinf(d)

Decision(dropped) == IF dropped THEN "drop" ELSE "keep"
PyBool(b) == IF b THEN "True" ELSE "False"

ValidInputs ==
    /\ number \in FloatsOrNone
    /\ validRes = "unset"
    /\ metricRes = "unset"
    /\ wmdRes = "unset"

\* the value of a result variable before the call: no text holds a number
Unset == <<0>>

\* the components a specification does not run stay as constructed
Idle(running) ==
    /\ IF "valid" \in running THEN TRUE
       ELSE /\ number = None
            /\ validRes = "unset"
            /\ metricRes = "unset"
            /\ wmdRes = "unset"
    /\ IF "encode" \in running THEN TRUE
       ELSE /\ embedding_name = "word2vec"
            /\ model = << >>
            /\ keys = {}
            /\ sentence = << >>
            /\ embedding = [st |-> "pending", vec |-> << >>]
            /\ sentences = << >>
            /\ embeddings = << >>
            /\ bi = 0
            /\ bpc = "idle"
    /\ IF "pair" \in running THEN TRUE
       ELSE /\ pfn = "none"
            /\ A = << >>
            /\ metric = "cosine"
            /\ dists = << >>
            /\ sel = << >>
            /\ flat = << >>
            /\ clean = << >>
            /\ fi = 0
            /\ psentences = << >>
            /\ wi = 0
            /\ wj = 0
            /\ ppc = "idle"
    /\ IF "dist" \in running THEN TRUE
       ELSE /\ sentence1 = << >>
            /\ sentence2 = << >>
            /\ emd = None
            /\ embed1 = [st |-> "pending", vec |-> << >>]
            /\ embed2 = [st |-> "pending", vec |-> << >>]
            /\ cosine = None
            /\ dpc = "idle"
    /\ IF "rand" \in running THEN TRUE
       ELSE /\ rn = 0
            /\ use_corpus = FALSE
            /\ paired = << >>
            /\ idxs = << >>
            /\ rsentences = << >>
            /\ ri = 0
            /\ rerr = "none"
            /\ rpc = "idle"
    /\ IF "canon" \in running THEN TRUE
       ELSE /\ digits = << >>
            /\ dres = Unset
            /\ ctext = << >>
            /\ cres = Unset
    /\ IF "vocab" \in running THEN TRUE
       ELSE /\ vocab_lines = << >>
            /\ vocab = << >>
    /\ IF "load" \in running THEN TRUE
       ELSE /\ lname = ""
            /\ glove_lines = << >>
            /\ lbound = FALSE
            /\ lmodel = << >>
            /\ lkeys = {}
            /\ li = 0
            /\ lerr = "none"
            /\ lpc = "idle"
    /\ IF "gt" \in running THEN TRUE
       ELSE /\ pieces = << >>
            /\ line = << >>
            /\ meta = << >>
            /\ subphrases = << >>
            /\ gi = 0
            /\ results = << >>
            /\ gerr = "none"
            /\ gpc = "idle"

InitValid == ValidInputs /\ Idle({"valid"})

\* a caller asks is_valid_distance about the number
CallIsValidDistance ==
    /\ validRes = "unset"
    /\ validRes' = PyBool(is_valid_distance(number))
    /\ UNCHANGED <<number, metricRes, wmdRes>>
    /\ UNCHANGED <<encodeVars, pairVars, distVars, randVars, canonVars, vocabVars, loadVars, gtVars>>

\* the number is an element of pairwise_metric's flat vector (numpy floats, never None)
MetricFilterStep ==
    /\ metricRes = "unset"
    /\ number.kind # "none"
    /\ metricRes' = Decision(MetricDrops(number))
    /\ UNCHANGED <<number, validRes, wmdRes>>
    /\ UNCHANGED <<encodeVars, pairVars, distVars, randVars, canonVars, vocabVars, loadVars, gtVars>>

\* the number is a distance returned by model.wmdistance inside pairwise_wmd
WmdFilterStep ==
    /\ wmdRes = "unset"
    /\ number.kind # "none"
    /\ wmdRes' = Decision(WmdDrops(number))
    /\ UNCHANGED <<number, validRes, metricRes>>
    /\ UNCHANGED <<encodeVars, pairVars, distVars, randVars, canonVars, vocabVars, loadVars, gtVars>>

NextValid == CallIsValidDistance \/ MetricFilterStep \/ WmdFilterStep

SpecValid == InitValid /\ [][NextValid]_vars

\* the policy of the validity filter: non-null, not NaN, not infinite, > 0
ValidByPolicy(x) == x.kind = "fin" /\ x.v > 0

\* C1: is_valid_distance(v) is True iff v is non-null, not NaN, not infinite
\* and strictly greater than zero (so is_valid_distance(0) is False).
C1_ValidIffStrictlyPositive ==
    validRes # "unset" => (validRes = "True" <=> ValidByPolicy(number))

\* C2: for every scalar (not None) the inline decision of pairwise_metric, the
\* inline decision of pairwise_wmd and is_valid_distance agree.
C2_OnePolicy ==
    (number.kind # "none" /\ validRes # "unset" /\ metricRes # "unset" /\ wmdRes # "unset")
        => /\ metricRes = wmdRes
           /\ (metricRes = "keep" <=> validRes = "True")


-----------------------------------------------------------------------------
(* Sentence encoder: encode_from_dict and batch_encode *)

\* config.py: F, the dimension of each embedding
F == [word2vec |-> 300, glove |-> 300, bert |-> 1024]

\* the dictionary-based families batch_encode and encode_from_dict document
DictEmbeddingNames == {"word2vec", "glove"}

\* Characters of a sentence; a sentence is a sequence of characters
Letters == {"a", "b", "c"}
Space == " "
Alphabet == Letters \cup {Space}

StringsUpTo(n) == UNION {[1..m -> Alphabet] : m \in 0..n}

\* Exact rationals num/den (den > 0, lowest terms) and NaN, for array entries
RECURSIVE GCD(_, _)
GCD(x, y) == IF y = 0 THEN x ELSE GCD(y, x % y)
Abs(x) == IF x < 0 THEN -x ELSE x
Q(n, d) ==
    LET g == GCD(Abs(n), d)
    IN [kind |-> "fin", num |-> n \div g, den |-> d \div g]
QNaN == [kind |-> "nan", num |-> 0, den |-> 1]
QZero == Q(0, 1)

\* np.zeros((rows, dim))
Zeros(rows, dim) == [r \in 1..rows |-> [k \in 1..dim |-> QZero]]

\* str.split(" "): a token ends at every single space, empty tokens are kept
RECURSIVE SplitSpace(_, _, _, _)
SplitSpace(s, i, cur, acc) ==
    IF i > Len(s) THEN Append(acc, cur)
    ELSE IF s[i] = Space THEN SplitSpace(s, i + 1, << >>, Append(acc, cur))
    ELSE SplitSpace(s, i + 1, Append(cur, s[i]), acc)
Split(s) == SplitSpace(s, 1, << >>, << >>)

\* The words an embedding file may hold and the vector it gives each of them:
\* an integer vector of the family's dimension.
VocabWords == {<<"a">>, <<"b">>}
WordVector(w, dim) ==
    [k \in 1..dim |->
        IF w = <<"a">> THEN (IF k = 1 THEN 1 ELSE IF k = dim THEN 3 ELSE 0)
        ELSE (IF k = 2 THEN 1 ELSE IF k = dim THEN -1 ELSE 0)]
ModelOver(ks, name) == [w \in ks |-> WordVector(w, F[name])]

\* count of every word of the sentence, covered or not
RECURSIVE CountAll(_, _)
CountAll(words, ks) ==
    IF words = << >> THEN 0 ELSE 1 + CountAll(Tail(words), ks)

\* encode_from_dict, first loop: the number of words for which there is an embedding
RECURSIVE CountCovered(_, _)
CountCovered(words, ks) ==
    IF words = << >> THEN 0
    ELSE (IF Head(words) \in ks THEN 1 ELSE 0) + CountCovered(Tail(words), ks)

\* encode_from_dict, second loop: embeddings[idx] = model[word]; idx += 1
RECURSIVE FillRows(_, _, _, _, _)
FillRows(rows, idx, words, m, ks) ==
    IF words = << >> THEN rows
    ELSE IF Head(words) \in ks
         THEN FillRows([rows EXCEPT ![idx] = [k \in DOMAIN rows[idx] |-> Q(m[Head(words)][k], 1)]],
                       idx + 1, Tail(words), m, ks)
         ELSE FillRows(rows, idx, Tail(words), m, ks)

RECURSIVE ColumnSum(_, _, _)
ColumnSum(rows, k, r) ==
    IF r > Len(rows) THEN 0 ELSE rows[r][k].num + ColumnSum(rows, k, r + 1)

\* the column sums, without the division by the number of rows
ColumnSums(rows, dim) == [k \in 1..dim |-> Q(ColumnSum(rows, k, 1), 1)]

\* embeddings.mean(0) of a (count, dim) array of integers, count > 0
Mean0(rows, dim) == [k \in 1..dim |-> Q(ColumnSum(rows, k, 1), Len(rows))]

NoEmbedding == [st |-> "None", vec |-> << >>]
Pending == [st |-> "pending", vec |-> << >>]
Array(v) == [st |-> "array", vec |-> v]

\* util.py encode_from_dict
encode_from_dict(name, m, ks, s) ==
    LET words == Split(s)
        count == CountCovered(words, ks)
    IN IF count = 0 THEN NoEmbedding
       ELSE Array(Mean0(FillRows(Zeros(count, F[name]), 1, words, m, ks), F[name]))

EncodeInputs ==
    /\ embedding_name \in DictEmbeddingNames
    /\ keys \in SUBSET VocabWords
    /\ model = ModelOver(keys, embedding_name)
    /\ sentence \in StringsUpTo(MaxLen)
    /\ embedding = Pending
    /\ sentences = << >>
    /\ embeddings = << >>
    /\ bi = 0
    /\ bpc = "idle"

InitEncode == EncodeInputs /\ Idle({"encode"})

CallEncodeFromDict ==
    /\ embedding = Pending
    /\ embedding' = encode_from_dict(embedding_name, model, keys, sentence)
    /\ UNCHANGED <<embedding_name, model, keys, sentence, sentences, embeddings, bi, bpc>>
    /\ UNCHANGED <<validVars, pairVars, distVars, randVars, canonVars, vocabVars, loadVars, gtVars>>

NextEncode == CallEncodeFromDict

SpecEncode == InitEncode /\ [][NextEncode]_vars

\* the tokens of the sentence that are in the vocabulary set, in order
CoveredTokens(s, ks) == SelectSeq(Split(s), LAMBDA w : w \in ks)

\* C3: encode_from_dict returns None iff zero tokens of the sentence (split on
\* single spaces) are in the vocabulary set; otherwise it returns a vector of
\* exactly dimension F[embedding_name].
C3_NoneIffUncovered ==
    embedding # Pending =>
        /\ (embedding = NoEmbedding <=> CoveredTokens(sentence, keys) = << >>)
        /\ (embedding # NoEmbedding =>
                /\ embedding.st = "array"
                /\ DOMAIN embedding.vec = 1..F[embedding_name])

C3_Witness ==
    /\ embedding.st = "array"
    /\ Len(CoveredTokens(sentence, keys)) = 1
    /\ Len(Split(sentence)) = 3

C3_WitnessNone ==
    /\ embedding = NoEmbedding
    /\ keys # {}
    /\ Len(Split(sentence)) = 2


\* the sum, over the covered token occurrences, of component k of their vectors
RECURSIVE CoveredSum(_, _, _)
CoveredSum(tokens, m, k) ==
    IF tokens = << >> THEN 0 ELSE m[Head(tokens)][k] + CoveredSum(Tail(tokens), m, k)

\* C4: when at least one token is covered, encode_from_dict returns the
\* per-dimension arithmetic mean of the vectors of the covered token occurrences
\* only; with a -> [1,0,..], b -> [0,1,..] the sentence "a b c" (c out of
\* vocabulary) encodes to [1/2, 1/2, ..].
C4_MeanOfCovered ==
    LET tokens == CoveredTokens(sentence, keys)
    IN (embedding # Pending /\ tokens # << >>) =>
          /\ embedding.st = "array"
          /\ \A k \in 1..F[embedding_name] :
                /\ embedding.vec[k].kind = "fin"
                /\ embedding.vec[k].num * Len(tokens)
                      = CoveredSum(tokens, model, k) * embedding.vec[k].den
          /\ (sentence = <<"a", " ", "b", " ", "c">> /\ keys = VocabWords) =>
                (embedding.vec[1] = Q(1, 2) /\ embedding.vec[2] = Q(1, 2))

C4_Witness ==
    /\ sentence = <<"a", " ", "b", " ", "c">>
    /\ keys = VocabWords
    /\ embedding.st = "array"
    /\ embedding.vec[1] = Q(1, 2)
    /\ embedding.vec[2] = Q(1, 2)

-----------------------------------------------------------------------------
(* batch_encode *)

\* embeddings[i] = embed: numpy stores an array row as it is and casts None
\* to NaN in every column of the float row
AssignRow(embed, dim) ==
    IF embed.st = "None" THEN [k \in 1..dim |-> QNaN] ELSE embed.vec

BatchInputs ==
    /\ embedding_name \in DictEmbeddingNames
    /\ keys \in SUBSET VocabWords
    /\ model = ModelOver(keys, embedding_name)
    /\ sentence = << >>
    /\ embedding = Pending
    /\ sentences \in UNION {[1..n -> StringsUpTo(MaxBatchLen)] : n \in 0..MaxBatch}
    /\ embeddings = << >>
    /\ bi = 0
    /\ bpc = "call"

InitBatch == BatchInputs /\ Idle({"encode"})

\* n = len(sentences); embeddings = np.zeros((n, config.F[embedding_name]))
BatchStart ==
    /\ bpc = "call"
    /\ embeddings' = Zeros(Len(sentences), F[embedding_name])
    /\ bi' = 0
    /\ bpc' = "loop"
    /\ UNCHANGED <<embedding_name, model, keys, sentence, embedding, sentences>>
    /\ UNCHANGED <<validVars, pairVars, distVars, randVars, canonVars, vocabVars, loadVars, gtVars>>

\* one iteration of: for i in range(n)
BatchStep ==
    /\ bpc = "loop"
    /\ bi < Len(sentences)
    /\ LET embed == encode_from_dict(embedding_name, model, keys, sentences[bi + 1])
       IN embeddings' = [embeddings EXCEPT ![bi + 1] = AssignRow(embed, F[embedding_name])]
    /\ bi' = bi + 1
    /\ UNCHANGED <<embedding_name, model, keys, sentence, embedding, sentences, bpc>>
    /\ UNCHANGED <<validVars, pairVars, distVars, randVars, canonVars, vocabVars, loadVars, gtVars>>

\* return embeddings
BatchReturn ==
    /\ bpc = "loop"
    /\ bi = Len(sentences)
    /\ bpc' = "returned"
    /\ UNCHANGED <<embedding_name, model, keys, sentence, embedding, sentences, embeddings, bi>>
    /\ UNCHANGED <<validVars, pairVars, distVars, randVars, canonVars, vocabVars, loadVars, gtVars>>

NextBatch == BatchStart \/ BatchStep \/ BatchReturn

SpecBatch == InitBatch /\ [][NextBatch]_vars

\* C5: batch_encode returns an N-row matrix, row i is the pooled embedding of
\* sentences[i], and the row of a sentence without a covered token is all zeros.
C5_ZeroRowForUnencodable ==
    bpc = "returned" =>
        /\ Len(embeddings) = Len(sentences)
        /\ \A r \in 1..Len(sentences) :
              LET embed == encode_from_dict(embedding_name, model, keys, sentences[r])
              IN IF CoveredTokens(sentences[r], keys) = << >>
                 THEN \A k \in 1..F[embedding_name] : embeddings[r][k] = QZero
                 ELSE embeddings[r] = embed.vec


-----------------------------------------------------------------------------
(* pairwise_metric and pairwise_wmd *)

\* Rows of the matrix: integer vectors with at most one non-zero component, so
\* that norms and cosines are exact
MatrixRows == {<<0, 0>>, <<1, 0>>, <<0, 1>>, <<2, 0>>, <<-1, 0>>}
Metrics == {"cosine", "cityblock"}

Dot(u, v) == u[1] * v[1] + u[2] * v[2]
\* the Euclidean norm of a row of MatrixRows
Norm(u) == Abs(u[1]) + Abs(u[2])

\* scipy.spatial.distance.cdist entry for two rows
Distance(u, v, m) ==
    IF m = "cosine"
    THEN (IF Norm(u) = 0 \/ Norm(v) = 0 THEN NaN
          ELSE Fin(1 - (Dot(u, v) \div (Norm(u) * Norm(v)))))
    ELSE Fin(Abs(u[1] - v[1]) + Abs(u[2] - v[2]))

\* dists = scipy.spatial.distance.cdist(A, A, metric=metric)
Cdist(a, m) == [r \in 1..Len(a) |-> [c \in 1..Len(a) |-> Distance(a[r], a[c], m)]]

\* np.triu: keeps the diagonal and what is above it
Triu(d) == [r \in 1..Len(d) |-> [c \in 1..Len(d) |-> IF c >= r THEN d[r][c] ELSE Fin(0)]]

\* np.tril: keeps the diagonal and what is below it, zero elsewhere
Tril(d) == [r \in 1..Len(d) |-> [c \in 1..Len(d) |-> IF c <= r THEN d[r][c] ELSE Fin(0)]]

\* np.nonzero of a square matrix: the (row, column) pairs of the entries that
\* differ from 0 (NaN differs from 0), in row-major order
RECURSIVE NonzeroFrom(_, _, _)
NonzeroFrom(m, r, c) ==
    IF r > Len(m) THEN << >>
    ELSE IF c > Len(m) THEN NonzeroFrom(m, r + 1, 1)
    ELSE (IF m[r][c] # Fin(0) THEN << <<r, c>> >> ELSE << >>) \o NonzeroFrom(m, r, c + 1)
Nonzero(m) == NonzeroFrom(m, 1, 1)

\* the values the delegate model.wmdistance may return (finite ones in halves)
WmdValues == {NaN, PosInf, NegInf, Fin(-2), Fin(0), Fin(1), Fin(2)}

\* the sentences handed to pairwise_wmd; their distances are the delegate's choice
WmdSentence(k) == <<"a", " ", "b">>

PairInputs ==
    /\ pfn \in {"pairwise_metric", "pairwise_wmd"}
    /\ IF pfn = "pairwise_metric"
       THEN /\ A \in UNION {[1..n -> MatrixRows] : n \in 0..MaxRows}
            /\ metric \in Metrics
            /\ psentences = << >>
       ELSE /\ A = << >>
            /\ metric = "cosine"
            /\ psentences \in {[k \in 1..n |-> WmdSentence(k)] : n \in 0..MaxSentences}
    /\ dists = << >>
    /\ sel = << >>
    /\ flat = << >>
    /\ clean = << >>
    /\ fi = 0
    /\ wi = 0
    /\ wj = 0
    /\ ppc = "call"

InitPair == PairInputs /\ Idle({"pair"})

\* pairwise_metric: cdist, np.nonzero(np.tril(dists)), flat = dists[idx1, idx2]
PMSelect ==
    /\ pfn = "pairwise_metric"
    /\ ppc = "call"
    /\ dists' = Cdist(A, metric)
    /\ sel' = Nonzero(Tril(dists'))
    /\ flat' = [k \in 1..Len(sel') |-> dists'[sel'[k][1]][sel'[k][2]]]
    /\ clean' = << >>
    /\ fi' = 0
    /\ ppc' = "filter"
    /\ UNCHANGED <<pfn, A, metric, psentences, wi, wj>>
    /\ UNCHANGED <<validVars, encodeVars, distVars, randVars, canonVars, vocabVars, loadVars, gtVars>>

\* pairwise_metric: one iteration of "for val in flat"
PMFilterStep ==
    /\ pfn = "pairwise_metric"
    /\ ppc = "filter"
    /\ fi < Len(flat)
    /\ clean' = IF MetricDrops(flat[fi + 1]) THEN clean ELSE Append(clean, flat[fi + 1])
    /\ fi' = fi + 1
    /\ UNCHANGED <<pfn, A, metric, dists, sel, flat, psentences, wi, wj, ppc>>
    /\ UNCHANGED <<validVars, encodeVars, distVars, randVars, canonVars, vocabVars, loadVars, gtVars>>

\* pairwise_metric: clean = np.asarray(clean); return clean
PMReturn ==
    /\ pfn = "pairwise_metric"
    /\ ppc = "filter"
    /\ fi = Len(flat)
    /\ ppc' = "returned"
    /\ UNCHANGED <<pfn, A, metric, dists, sel, flat, clean, fi, psentences, wi, wj>>
    /\ UNCHANGED <<validVars, encodeVars, distVars, randVars, canonVars, vocabVars, loadVars, gtVars>>

\* pairwise_wmd: the first (i, j) of "for i in range(n): for j in range(i + 1, n)",
\* <<n, n>> when there is none
FirstPair(n) == IF n >= 2 THEN <<0, 1>> ELSE <<n, n>>
\* the (i, j) after (i, j), <<n, n>> when the loops are over
NextPair(i, j, n) ==
    IF j + 1 < n THEN <<i, j + 1>>
    ELSE IF i + 2 < n THEN <<i + 1, i + 2>>
    ELSE <<n, n>>

\* pairwise_wmd: dists = []; n = len(sentences)
WmdStart ==
    /\ pfn = "pairwise_wmd"
    /\ ppc = "call"
    /\ flat' = << >>
    /\ clean' = << >>
    /\ wi' = FirstPair(Len(psentences))[1]
    /\ wj' = FirstPair(Len(psentences))[2]
    /\ ppc' = "loop"
    /\ UNCHANGED <<pfn, A, metric, dists, sel, fi, psentences>>
    /\ UNCHANGED <<validVars, encodeVars, distVars, randVars, canonVars, vocabVars, loadVars, gtVars>>

\* pairwise_wmd: one iteration of the inner loop; d is what wmdistance returns
WmdStep ==
    /\ pfn = "pairwise_wmd"
    /\ ppc = "loop"
    /\ wi < Len(psentences)
    /\ \E d \in WmdValues :
          /\ flat' = Append(flat, d)
          /\ clean' = IF WmdDrops(d) THEN clean ELSE Append(clean, d)
    /\ wi' = NextPair(wi, wj, Len(psentences))[1]
    /\ wj' = NextPair(wi, wj, Len(psentences))[2]
    /\ UNCHANGED <<pfn, A, metric, dists, sel, fi, psentences, ppc>>
    /\ UNCHANGED <<validVars, encodeVars, distVars, randVars, canonVars, vocabVars, loadVars, gtVars>>

\* pairwise_wmd: dists = np.asarray(dists); return dists
WmdReturn ==
    /\ pfn = "pairwise_wmd"
    /\ ppc = "loop"
    /\ wi = Len(psentences)
    /\ ppc' = "returned"
    /\ UNCHANGED <<pfn, A, metric, dists, sel, flat, clean, fi, psentences, wi, wj>>
    /\ UNCHANGED <<validVars, encodeVars, distVars, randVars, canonVars, vocabVars, loadVars, gtVars>>

NextPairwise == PMSelect \/ PMFilterStep \/ PMReturn \/ WmdStart \/ WmdStep \/ WmdReturn

SpecPairwise == InitPair /\ [][NextPairwise]_vars


Range(f) == {f[k] : k \in DOMAIN f}
StrictlyLower(n) == {<<r, c>> \in (1..n) \X (1..n) : r > c}

C7_FilteredSubsequence ==
    /\ (pfn = "pairwise_metric" /\ ppc \in {"filter", "returned"}) =>
            clean = SelectSeq(SubSeq(flat, 1, fi), ValidByPolicy)
    /\ (pfn = "pairwise_wmd" /\ ppc \in {"loop", "returned"}) =>
            clean = SelectSeq(flat, ValidByPolicy)
    /\ ppc = "returned" => clean = SelectSeq(flat, ValidByPolicy)

C7_Witness ==
    /\ pfn = "pairwise_wmd"
    /\ ppc = "returned"
    /\ flat = <<NaN, Fin(2), Fin(1)>>
    /\ clean = <<Fin(2), Fin(1)>>

C7_WitnessMetric ==
    /\ pfn = "pairwise_metric"
    /\ ppc = "returned"
    /\ flat = <<Fin(1), NaN, NaN, NaN>>
    /\ clean = <<Fin(1)>>


-----------------------------------------------------------------------------
(* compute_distances *)

\* the largest r with r * r <= x, by bisection on lo..hi
RECURSIVE ISqrtIn(_, _, _)
ISqrtIn(x, lo, hi) ==
    IF lo >= hi THEN lo
    ELSE LET mid == (lo + hi + 1) \div 2
         IN IF mid * mid <= x THEN ISqrtIn(x, mid, hi) ELSE ISqrtIn(x, lo, mid - 1)
\* 46340 * 46340 is the largest square of the 32-bit integers
ISqrt(x) == ISqrtIn(x, 0, IF x > 46340 THEN 46340 ELSE x)

\* the common denominator of entries lo..hi of a pooled vector (every entry of a
\* mean over count rows has a denominator dividing count)
RECURSIVE LcmDen(_, _, _)
LcmDen(u, lo, hi) ==
    IF lo > hi THEN 1
    ELSE IF lo = hi THEN u[lo].den
    ELSE LET mid == (lo + hi) \div 2
             l == LcmDen(u, lo, mid)
             r == LcmDen(u, mid + 1, hi)
         IN (l * r) \div GCD(l, r)
\* the integer vector LcmDen(u) * u: cosine is scale-invariant
Integral(u) ==
    LET l == LcmDen(u, 1, Len(u)) IN [k \in 1..Len(u) |-> u[k].num * (l \div u[k].den)]

\* the sum of u[k] * v[k] for k in lo..hi, u and v integer vectors
RECURSIVE DotRange(_, _, _, _)
DotRange(u, v, lo, hi) ==
    IF lo > hi THEN 0
    ELSE IF lo = hi THEN u[lo] * v[lo]
    ELSE LET mid == (lo + hi) \div 2
         IN DotRange(u, v, lo, mid) + DotRange(u, v, mid + 1, hi)

\* scipy.spatial.distance.cosine(u, v) = 1 - u.v / (|u| |v|), in thousandths
\* (rounded down); NaN when a norm is 0
CosineDistance(u, v) ==
    LET iu == Integral(u)
        iv == Integral(v)
        uv == DotRange(iu, iv, 1, Len(u))
        uu == DotRange(iu, iu, 1, Len(u))
        vv == DotRange(iv, iv, 1, Len(u))
    IN IF uu = 0 \/ vv = 0 THEN NaN
       ELSE Fin(1000 - ((1000000 * uv) \div ISqrt(1000000 * uu * vv)))

DistInputs ==
    /\ sentence1 \in StringsUpTo(MaxDistLen)
    /\ sentence2 \in StringsUpTo(MaxDistLen)
    /\ emd = None
    /\ embed1 = Pending
    /\ embed2 = Pending
    /\ cosine = None
    /\ dpc = "call"
    \* the model compute_distances is given, and its vocabulary
    /\ embedding_name = "word2vec"
    /\ keys \in SUBSET VocabWords
    /\ model = ModelOver(keys, embedding_name)
    /\ sentence = << >>
    /\ embedding = Pending
    /\ sentences = << >>
    /\ embeddings = << >>
    /\ bi = 0
    /\ bpc = "idle"

InitDist == DistInputs /\ Idle({"encode", "dist"})

\* emd = model.wmdistance(sentence1.split(" "), sentence2.split(" "))
CDWmdistance ==
    /\ dpc = "call"
    /\ emd' \in WmdValues
    /\ dpc' = "emd"
    /\ UNCHANGED <<sentence1, sentence2, embed1, embed2, cosine>>
    /\ UNCHANGED <<validVars, encodeVars, pairVars, randVars, canonVars, vocabVars, loadVars, gtVars>>

\* embed1, embed2 = encode_from_dict("word2vec", model, keys, sentence1 / sentence2)
CDEncode ==
    /\ dpc = "emd"
    /\ embed1' = encode_from_dict("word2vec", model, keys, sentence1)
    /\ embed2' = encode_from_dict("word2vec", model, keys, sentence2)
    /\ dpc' = "embedded"
    /\ UNCHANGED <<sentence1, sentence2, emd, cosine>>
    /\ UNCHANGED <<validVars, encodeVars, pairVars, randVars, canonVars, vocabVars, loadVars, gtVars>>

\* cosine = None; if both embeddings exist: cosine = cosine(embed1, embed2);
\* return cosine, emd
CDReturn ==
    /\ dpc = "embedded"
    /\ cosine' = IF embed1 # NoEmbedding /\ embed2 # NoEmbedding
                 THEN CosineDistance(embed1.vec, embed2.vec)
                 ELSE None
    /\ dpc' = "returned"
    /\ UNCHANGED <<sentence1, sentence2, emd, embed1, embed2>>
    /\ UNCHANGED <<validVars, encodeVars, pairVars, randVars, canonVars, vocabVars, loadVars, gtVars>>

NextDist == CDWmdistance \/ CDEncode \/ CDReturn

SpecDist == InitDist /\ [][NextDist]_vars

\* C8: every distance compute_distances returns, the cosine value (when there
\* is one) and the Word-Mover value, is valid by the policy of the validity
\* filter: no NaN, infinite or non-positive value flows out.
C8_ReturnedDistancesValid ==
    dpc = "returned" =>
        /\ ValidByPolicy(emd)
        /\ (cosine # None => ValidByPolicy(cosine))


-----------------------------------------------------------------------------
(* random_sentences, use_corpus=True *)

\* the ground-truth sentences a corpus entry may hold (skip_empty: none is empty)
CorpusSentences == {<<"a">>, <<"b">>, <<"a", " ", "b">>}

\* what load_paired_json returns: entry gid has the field gt; two entries may
\* hold the same sentence
Corpora == UNION {[1..k -> [gt : CorpusSentences]] : k \in 0..MaxCorpus}

\* np.random.choice(np.arange(size), (n,), replace=False): any n distinct
\* indices of 0..size-1, in any order (n <= size)
ChoiceWithoutReplacement(size, n) ==
    {f \in [1..n -> 0..(size - 1)] : \A i \in 1..n : \A j \in 1..n : i # j => f[i] # f[j]}

RandCorpusInputs ==
    /\ rn \in 0..MaxN
    /\ use_corpus = TRUE
    /\ paired \in Corpora
    /\ idxs = << >>
    /\ rsentences = << >>
    /\ ri = 0
    /\ rerr = "none"
    /\ rpc = "call"

InitRand == RandCorpusInputs /\ Idle({"rand"})

\* sentences = []; paired = load_paired_json(); gids = list(paired.keys());
\* idxs = np.random.choice(np.arange(len(gids)), (n,), replace=False), which
\* raises ValueError when n exceeds the population
RSChoice ==
    /\ rpc = "call"
    /\ use_corpus
    /\ IF rn > Len(paired)
       THEN /\ rerr' = "ValueError"
            /\ rpc' = "raised"
            /\ UNCHANGED idxs
       ELSE /\ idxs' \in ChoiceWithoutReplacement(Len(paired), rn)
            /\ rpc' = "loop"
            /\ UNCHANGED rerr
    /\ UNCHANGED <<rn, use_corpus, paired, rsentences, ri>>
    /\ UNCHANGED <<validVars, encodeVars, pairVars, distVars, canonVars, vocabVars, loadVars, gtVars>>

\* one iteration of "for idx in idxs": sentences.append(paired[gids[idx]]["gt"])
RSAppend ==
    /\ rpc = "loop"
    /\ ri < Len(idxs)
    /\ rsentences' = Append(rsentences, paired[idxs[ri + 1] + 1].gt)
    /\ ri' = ri + 1
    /\ UNCHANGED <<rn, use_corpus, paired, idxs, rerr, rpc>>
    /\ UNCHANGED <<validVars, encodeVars, pairVars, distVars, canonVars, vocabVars, loadVars, gtVars>>

\* return sentences
RSReturn ==
    /\ rpc = "loop"
    /\ ri = Len(idxs)
    /\ rpc' = "returned"
    /\ UNCHANGED <<rn, use_corpus, paired, idxs, rsentences, ri, rerr>>
    /\ UNCHANGED <<validVars, encodeVars, pairVars, distVars, canonVars, vocabVars, loadVars, gtVars>>

NextRand == RSChoice \/ RSAppend \/ RSReturn

SpecRand == InitRand /\ [][NextRand]_vars

GtValues(corpus) == {corpus[g].gt : g \in DOMAIN corpus}

\* C9: over a corpus with at least n entries random_sentences(n, True) returns n
\* pairwise-distinct strings, each the gt of some corpus entry, also when
\* several entries share a gt string.
C9_DistinctCorpusSentences ==
    (use_corpus /\ Len(paired) >= rn /\ rpc = "returned") =>
        /\ Len(rsentences) = rn
        /\ \A i \in 1..Len(rsentences) : rsentences[i] \in GtValues(paired)
        /\ \A i \in 1..Len(rsentences) : \A j \in 1..Len(rsentences) :
              i # j => rsentences[i] # rsentences[j]

\* C10: random_sentences(n, True) fails, and returns no sentence list, whenever
\* the corpus has fewer than n unique sentences.
C10_FailsWhenTooFewUnique ==
    (use_corpus /\ Cardinality(GtValues(paired)) < rn /\ rpc \in {"raised", "returned"}) =>
        /\ rpc = "raised"
        /\ rerr # "none"
        /\ rsentences = << >>

-----------------------------------------------------------------------------
(* preproc/util.py: canonicalize and digits_to_words.  A text is a sequence *)
(* of one-character strings, without line breaks.                           *)

\* the elements of s at the positions lo..hi where mask is TRUE, in order
RECURSIVE KeepRange(_, _, _, _)
KeepRange(s, mask, lo, hi) ==
    IF lo > hi THEN << >>
    ELSE IF lo = hi THEN (IF mask[lo] THEN <<s[lo]>> ELSE << >>)
    ELSE LET mid == (lo + hi) \div 2
         IN KeepRange(s, mask, lo, mid) \o KeepRange(s, mask, mid + 1, hi)

\* the concatenation of parts[lo..hi]
RECURSIVE ConcatRange(_, _, _)
ConcatRange(parts, lo, hi) ==
    IF lo > hi THEN << >>
    ELSE IF lo = hi THEN parts[lo]
    ELSE LET mid == (lo + hi) \div 2
         IN ConcatRange(parts, lo, mid) \o ConcatRange(parts, mid + 1, hi)

SetMin(S) == CHOOSE x \in S : \A y \in S : x <= y
SetMax(S) == CHOOSE x \in S : \A y \in S : x >= y

Digits == {"0", "1", "2", "3", "4", "5", "6", "7", "8", "9"}
DigitValue ==
    ("0" :> 0) @@ ("1" :> 1) @@ ("2" :> 2) @@ ("3" :> 3) @@ ("4" :> 4) @@
    ("5" :> 5) @@ ("6" :> 6) @@ ("7" :> 7) @@ ("8" :> 8) @@ ("9" :> 9)

\* string.punctuation (without the backquote, which no TLA+ string can hold)
Punctuation == {
    "!", "\"", "#", "$", "%", "&", "'", "(", ")", "*", "+", ",",
    "-", ".", "/", ":", ";", "<", "=", ">", "?", "@", "[", "\\",
    "]", "^", "_", "{", "|", "}", "~"}

\* the whitespace of a one-line text: what \s matches and str.strip removes
Whitespace == {" ", "\t"}

\* str.lower on one character
UpperToLower ==
    ("A" :> "a") @@ ("B" :> "b") @@ ("C" :> "c") @@ ("D" :> "d") @@ ("E" :> "e") @@ ("F" :> "f") @@
    ("G" :> "g") @@ ("H" :> "h") @@ ("I" :> "i") @@ ("J" :> "j") @@ ("K" :> "k") @@ ("L" :> "l") @@
    ("M" :> "m") @@ ("N" :> "n") @@ ("O" :> "o") @@ ("P" :> "p") @@ ("Q" :> "q") @@ ("R" :> "r") @@
    ("S" :> "s") @@ ("T" :> "t") @@ ("U" :> "u") @@ ("V" :> "v") @@ ("W" :> "w") @@ ("X" :> "x") @@
    ("Y" :> "y") @@ ("Z" :> "z")
\* str.lower
Lower(s) == [i \in 1..Len(s) |-> IF s[i] \in DOMAIN UpperToLower THEN UpperToLower[s[i]] ELSE s[i]]

\* num2words1
num2words1 ==
    (0 :> <<"z", "e", "r", "o">>) @@
    (1 :> <<"o", "n", "e">>) @@
    (2 :> <<"t", "w", "o">>) @@
    (3 :> <<"t", "h", "r", "e", "e">>) @@
    (4 :> <<"f", "o", "u", "r">>) @@
    (5 :> <<"f", "i", "v", "e">>) @@
    (6 :> <<"s", "i", "x">>) @@
    (7 :> <<"s", "e", "v", "e", "n">>) @@
    (8 :> <<"e", "i", "g", "h", "t">>) @@
    (9 :> <<"n", "i", "n", "e">>) @@
    (10 :> <<"t", "e", "n">>) @@
    (11 :> <<"e", "l", "e", "v", "e", "n">>) @@
    (12 :> <<"t", "w", "e", "l", "v", "e">>) @@
    (13 :> <<"t", "h", "i", "r", "t", "e", "e", "n">>) @@
    (14 :> <<"f", "o", "u", "r", "t", "e", "e", "n">>) @@
    (15 :> <<"f", "i", "f", "t", "e", "e", "n">>) @@
    (16 :> <<"s", "i", "x", "t", "e", "e", "n">>) @@
    (17 :> <<"s", "e", "v", "e", "n", "t", "e", "e", "n">>) @@
    (18 :> <<"e", "i", "g", "h", "t", "e", "e", "n">>) @@
    (19 :> <<"n", "i", "n", "e", "t", "e", "e", "n">>)

\* num2words2, a list: indices from 0
num2words2 ==
    (0 :> <<"t", "w", "e", "n", "t", "y">>) @@
    (1 :> <<"t", "h", "i", "r", "t", "y">>) @@
    (2 :> <<"f", "o", "r", "t", "y">>) @@
    (3 :> <<"f", "i", "f", "t", "y">>) @@
    (4 :> <<"s", "i", "x", "t", "y">>) @@
    (5 :> <<"s", "e", "v", "e", "n", "t", "y">>) @@
    (6 :> <<"e", "i", "g", "h", "t", "y">>) @@
    (7 :> <<"n", "i", "n", "e", "t", "y">>)

\* ordinals
ordinals ==
    (<<"1", "s", "t">> :> <<"f", "i", "r", "s", "t">>) @@
    (<<"2", "n", "d">> :> <<"s", "e", "c", "o", "n", "d">>) @@
    (<<"3", "r", "d">> :> <<"t", "h", "i", "r", "d">>) @@
    (<<"4", "t", "h">> :> <<"f", "o", "u", "r", "t", "h">>) @@
    (<<"5", "t", "h">> :> <<"f", "i", "f", "t", "h">>) @@
    (<<"6", "t", "h">> :> <<"s", "i", "x", "t", "h">>) @@
    (<<"7", "t", "h">> :> <<"s", "e", "v", "e", "n", "t", "h">>) @@
    (<<"8", "t", "h">> :> <<"e", "i", "g", "h", "t", "h">>) @@
    (<<"9", "t", "h">> :> <<"n", "i", "n", "t", "h">>) @@
    (<<"1", "0", "t", "h">> :> <<"t", "e", "n", "t", "h">>)

\* int(digits) of a non-empty string of decimal digits
RECURSIVE ParseInt(_)
ParseInt(d) ==
    IF d = << >> THEN 0
    ELSE 10 * ParseInt(SubSeq(d, 1, Len(d) - 1)) + DigitValue[d[Len(d)]]

\* preproc/util.py digits_to_words
digits_to_words(d) ==
    LET integer == ParseInt(d)
    IN IF 0 <= integer /\ integer < 19 THEN num2words1[integer]
       ELSE IF 20 <= integer /\ integer <= 99
            THEN num2words2[(integer \div 10) - 2] \o <<" ">> \o num2words1[integer % 10]
       ELSE << >>

\* re.sub('\[.*\]|\s-\s.*', '', text): the leftmost match is removed, then the
\* search goes on behind it.  '\[.*\]' runs from a '[' to the last ']' of the
\* text, '\s-\s.*' from a whitespace-dash-whitespace to the end of the text.
Scrub(text) ==
    LET n == Len(text)
        closes == {j \in 1..n : text[j] = "]"}
        lastClose == IF closes = {} THEN 0 ELSE SetMax(closes)
        brackets == {i \in 1..n : text[i] = "[" /\ i < lastClose}
        dashes == {i \in 1..(n - 2) : /\ text[i] \in Whitespace
                                       /\ text[i + 1] = "-"
                                       /\ text[i + 2] \in Whitespace}
        starts == brackets \cup dashes
    IN IF starts = {} THEN text
       ELSE LET first == SetMin(starts)
            IN IF first \in dashes THEN SubSeq(text, 1, first - 1)
               ELSE LET later == {i \in dashes : i > lastClose}
                        stop == IF later = {} THEN n ELSE SetMin(later) - 1
                    IN SubSeq(text, 1, first - 1) \o SubSeq(text, lastClose + 1, stop)

\* str.strip
Strip(text) ==
    LET solid == {i \in 1..Len(text) : text[i] \notin Whitespace}
    IN IF solid = {} THEN << >> ELSE SubSeq(text, SetMin(solid), SetMax(solid))

\* preproc/util.py canonicalize
canonicalize(text) ==
    LET \* text = text.lower()
        lowered == Lower(text)
        \* if '[' in text: text = re.sub('\[.*\]|\s-\s.*', '', text)
        scrubbed == IF \E i \in 1..Len(lowered) : lowered[i] = "[" THEN Scrub(lowered) ELSE lowered
        \* text = text.translate(str.maketrans('', '', string.punctuation))
        plain == KeepRange(scrubbed, [i \in 1..Len(scrubbed) |-> scrubbed[i] \notin Punctuation],
                           1, Len(scrubbed))
        \* tokens = text.split(' ')
        tokens == Split(plain)
        \* the loop over the tokens: isdigit, then the ordinals
        converted == [k \in 1..Len(tokens) |->
                        IF tokens[k] # << >> /\ \A i \in 1..Len(tokens[k]) : tokens[k][i] \in Digits
                        THEN digits_to_words(tokens[k])
                        ELSE IF tokens[k] \in DOMAIN ordinals THEN ordinals[tokens[k]]
                        ELSE tokens[k]]
        \* text = ' '.join(tokens); text = text.lower()
        joined == Lower(ConcatRange([k \in 1..Len(converted) |->
                                        IF k = 1 THEN converted[k] ELSE <<" ">> \o converted[k]],
                                    1, Len(converted)))
        \* re.sub(' +', ' ', text): a space that follows a space is dropped
        merged == KeepRange(joined,
                            [i \in 1..Len(joined) |-> ~(joined[i] = " " /\ i > 1 /\ joined[i - 1] = " ")],
                            1, Len(joined))
    IN Strip(merged)

\* the number is handed over alone, or inside the sentence "I am <number> now."
InitCanon ==
    /\ digits \in UNION {[1..m -> Digits] : m \in 1..MaxDigits}
    /\ dres = Unset
    /\ ctext \in {digits, <<"I", " ", "a", "m", " ">> \o digits \o <<" ", "n", "o", "w", ".">>}
    /\ cres = Unset
    /\ Idle({"canon"})

CallDigitsToWords ==
    /\ dres = Unset
    /\ dres' = digits_to_words(digits)
    /\ UNCHANGED <<digits, ctext, cres>>
    /\ UNCHANGED <<validVars, encodeVars, pairVars, distVars, randVars, vocabVars, loadVars, gtVars>>

CallCanonicalize ==
    /\ cres = Unset
    /\ cres' = canonicalize(ctext)
    /\ UNCHANGED <<digits, dres, ctext>>
    /\ UNCHANGED <<validVars, encodeVars, pairVars, distVars, randVars, vocabVars, loadVars, gtVars>>

NextCanon == CallDigitsToWords \/ CallCanonicalize

SpecCanon == InitCanon /\ [][NextCanon]_vars

\* the English words of a number of 0..99: "nineteen", "twenty", "forty eight"
EnglishWords(n) ==
    IF n <= 19 THEN num2words1[n]
    ELSE IF n % 10 = 0 THEN num2words2[(n \div 10) - 2]
    ELSE num2words2[(n \div 10) - 2] \o <<" ">> \o num2words1[n % 10]

\* C13: for every digit string denoting a number of 0..99 digits_to_words
\* returns the non-empty English words of the number (19 -> nineteen,
\* 20 -> twenty, 48 -> forty eight), and canonicalize puts these words in the
\* place of the number.
C13_NumbersToWords ==
    ParseInt(digits) \in 0..99 =>
        /\ dres # Unset => (dres # << >> /\ dres = EnglishWords(ParseInt(digits)))
        /\ (cres # Unset /\ ctext = digits) => cres = EnglishWords(ParseInt(digits))
        /\ (cres # Unset /\ ctext # digits) =>
              cres = <<"i", " ", "a", "m", " ">> \o EnglishWords(ParseInt(digits))
                        \o <<" ", "n", "o", "w">>

-----------------------------------------------------------------------------
(* random_sentences, use_corpus=False, and _random_sentence *)

MaxVocab == 1           \* lines of the vocabulary file
MaxDraw == 16           \* whole part of the largest log-normal draw

\* the lines a vocabulary file may hold (read without their line break)
VocabLinePool ==
    {<<"a">>, <<"B", " ">>, <<"[", "x", "]">>, <<"!">>, <<"1", "9">>, <<"4", "8">>, <<"7">>}

\* int(np.clip(x, 2, 15)) of a draw x >= 0 with the whole part "whole"
ClipInt(whole) == IF whole < 2 THEN 2 ELSE IF whole > 15 THEN 15 ELSE whole

\* np.random.choice(np.arange(0, size), (n,), replace=True): any n indices
ChoiceWithReplacement(size, n) == [1..n -> 0..(size - 1)]

\* sentence = ""; for i in idx: sentence += f" {vocab[i]}"
Compose(vocabulary, idx) ==
    ConcatRange([k \in 1..Len(idx) |-> <<" ">> \o vocabulary[idx[k] + 1]], 1, Len(idx))

\* evaluation.util.canonicalize: the canonicalization of the transcripts
evaluation_util_canonicalize(text) == canonicalize(text)

InitRandVocab ==
    /\ rn \in 0..MaxN
    /\ use_corpus = FALSE
    /\ paired = << >>
    /\ idxs = << >>
    /\ rsentences = << >>
    /\ ri = 0
    /\ rerr = "none"
    /\ rpc = "call"
    /\ vocab_lines \in UNION {[1..k -> VocabLinePool] : k \in 0..MaxVocab}
    /\ vocab = << >>
    /\ Idle({"rand", "vocab"})

\* sentences = []; vocab = [x.strip().lower() for x in f.readlines()]
RVLoadVocab ==
    /\ rpc = "call"
    /\ ~use_corpus
    /\ vocab' = [k \in 1..Len(vocab_lines) |-> Lower(Strip(vocab_lines[k]))]
    /\ rpc' = "vocab"
    /\ UNCHANGED <<rn, use_corpus, paired, idxs, rsentences, ri, rerr, vocab_lines>>
    /\ UNCHANGED <<validVars, encodeVars, pairVars, distVars, canonVars, loadVars, gtVars>>

\* one iteration of "for _ in range(n)": sentences.append(_random_sentence(vocab));
\* np.random.choice raises ValueError on an empty vocabulary
RVAppend ==
    /\ rpc = "vocab"
    /\ ri < rn
    /\ \E whole \in 0..MaxDraw :
          LET n_words == ClipInt(whole)
              vocab_size == Len(vocab)
          IN IF vocab_size = 0
             THEN /\ rerr' = "ValueError"
                  /\ rpc' = "raised"
                  /\ UNCHANGED <<rsentences, ri>>
             ELSE /\ \E idx \in ChoiceWithReplacement(vocab_size, n_words) :
                        rsentences' = Append(rsentences, evaluation_util_canonicalize(Compose(vocab, idx)))
                  /\ ri' = ri + 1
                  /\ UNCHANGED <<rerr, rpc>>
    /\ UNCHANGED <<rn, use_corpus, paired, idxs, vocab_lines, vocab>>
    /\ UNCHANGED <<validVars, encodeVars, pairVars, distVars, canonVars, loadVars, gtVars>>

\* return sentences
RVReturn ==
    /\ rpc = "vocab"
    /\ ri = rn
    /\ rpc' = "returned"
    /\ UNCHANGED <<rn, use_corpus, paired, idxs, rsentences, ri, rerr, vocab_lines, vocab>>
    /\ UNCHANGED <<validVars, encodeVars, pairVars, distVars, canonVars, loadVars, gtVars>>

NextRandVocab == RVLoadVocab \/ RVAppend \/ RVReturn

SpecRandVocab == InitRandVocab /\ [][NextRandVocab]_vars

\* the number of words of a sentence: its non-empty tokens
WordCount(text) == Cardinality({k \in 1..Len(Split(text)) : Split(text)[k] # << >>})

\* C11: random_sentences(n, use_corpus=False) returns n sentences, and every
\* returned (canonicalized) sentence has between 2 and 15 words, whatever the
\* vocabulary holds: digit-only, punctuation-only or bracketed words included.
C11_WordCountInRange ==
    (~use_corpus /\ rpc = "returned") =>
        /\ Len(rsentences) = rn
        /\ \A i \in 1..Len(rsentences) : WordCount(rsentences[i]) \in 2..15

-----------------------------------------------------------------------------
(* load_embedding_model and load_glove *)

MaxLines == 2           \* lines of the GloVe text file

\* the names a caller may hand to load_embedding_model
EmbeddingNames == {"word2vec", "glove", "bert", "Glove"}

\* the lines a GloVe text file may hold (read without their line break)
GloveLinePool ==
    {<<"a", " ", "1", " ", "-", "2">>,
     <<"b", " ", "0", ".", "5">>,
     <<" ", "a", " ", "3", " ">>,
     <<"c", " ", " ", "1">>,
     <<"d", " ", "x">>,
     << >>}

\* the dictionaries gensim may read from the word2vec binary file
Word2vecModels ==
    {<< >>,
     <<[word |-> <<"a">>, vec |-> <<Q(1, 1), Q(3, 1)>>]>>,
     <<[word |-> <<"a">>, vec |-> <<Q(1, 1), Q(3, 1)>>],
       [word |-> <<"b">>, vec |-> <<Q(0, 1), Q(-1, 1)>>]>>}

\* the tokens float() is asked to read here: [-]digits[.digits]
IsFloatLiteral(t) ==
    LET body == IF t # << >> /\ t[1] = "-" THEN Tail(t) ELSE t
        dots == {i \in 1..Len(body) : body[i] = "."}
    IN /\ body # << >>
       /\ Cardinality(dots) <= 1
       /\ \A i \in 1..Len(body) : body[i] \in Digits \cup {"."}
       /\ body[1] \in Digits
       /\ body[Len(body)] \in Digits

\* float(t) of such a token, as an exact rational
ParseFloat(t) ==
    LET neg == t[1] = "-"
        body == IF neg THEN Tail(t) ELSE t
        ds == KeepRange(body, [i \in 1..Len(body) |-> body[i] # "."], 1, Len(body))
        dots == {i \in 1..Len(body) : body[i] = "."}
        frac == IF dots = {} THEN 0 ELSE Len(body) - SetMin(dots)
        mag == ParseInt(ds)
    IN Q(IF neg THEN -mag ELSE mag, ParseInt(<<"1">> \o [k \in 1..frac |-> "0"]))

\* model[word] = vec on a dictionary kept as its entries in insertion order
PutEntry(m, word, vec) ==
    IF \E i \in 1..Len(m) : m[i].word = word
    THEN [i \in 1..Len(m) |-> IF m[i].word = word THEN [word |-> word, vec |-> vec] ELSE m[i]]
    ELSE Append(m, [word |-> word, vec |-> vec])

\* set(model.keys()), model.vocab
KeysOf(m) == {m[i].word : i \in 1..Len(m)}

InitLoad ==
    /\ lname \in EmbeddingNames
    /\ glove_lines \in UNION {[1..k -> GloveLinePool] : k \in 0..MaxLines}
    /\ lbound = FALSE
    /\ lmodel = << >>
    /\ lkeys = {}
    /\ li = 0
    /\ lerr = "none"
    /\ lpc = "call"
    /\ Idle({"load"})

\* if embedding_name == "word2vec": model = load_word2vec_format(...); keys = model.vocab
LEMWord2vec ==
    /\ lpc = "call"
    /\ lname = "word2vec"
    /\ lmodel' \in Word2vecModels
    /\ lkeys' = KeysOf(lmodel')
    /\ lbound' = TRUE
    /\ lpc' = "return"
    /\ UNCHANGED <<lname, glove_lines, li, lerr>>
    /\ UNCHANGED <<validVars, encodeVars, pairVars, distVars, randVars, canonVars, vocabVars, gtVars>>

\* elif embedding_name == "glove": load_glove is entered, its model = {}
LEMGlove ==
    /\ lpc = "call"
    /\ lname = "glove"
    /\ lpc' = "load_glove"
    /\ UNCHANGED <<lname, glove_lines, lbound, lmodel, lkeys, li, lerr>>
    /\ UNCHANGED <<validVars, encodeVars, pairVars, distVars, randVars, canonVars, vocabVars, gtVars>>

\* neither branch is taken: nothing is assigned
LEMNoBranch ==
    /\ lpc = "call"
    /\ lname \notin {"word2vec", "glove"}
    /\ lpc' = "return"
    /\ UNCHANGED <<lname, glove_lines, lbound, lmodel, lkeys, li, lerr>>
    /\ UNCHANGED <<validVars, encodeVars, pairVars, distVars, randVars, canonVars, vocabVars, gtVars>>

\* one iteration of "for line in f": tokens = line.strip().split(" ");
\* word = tokens[0]; vec = [float(x) for x in tokens[1:]]; model[word] = vec
LGLine ==
    /\ lpc = "load_glove"
    /\ li < Len(glove_lines)
    /\ LET tokens == Split(Strip(glove_lines[li + 1]))
           word == tokens[1]
           rest == Tail(tokens)
       IN IF \A k \in 1..Len(rest) : IsFloatLiteral(rest[k])
          THEN /\ lmodel' = PutEntry(lmodel, word, [k \in 1..Len(rest) |-> ParseFloat(rest[k])])
               /\ li' = li + 1
               /\ UNCHANGED <<lerr, lpc>>
          ELSE /\ lerr' = "ValueError"
               /\ lpc' = "raised"
               /\ UNCHANGED <<lmodel, li>>
    /\ UNCHANGED <<lname, glove_lines, lbound, lkeys>>
    /\ UNCHANGED <<validVars, encodeVars, pairVars, distVars, randVars, canonVars, vocabVars, gtVars>>

\* load_glove returns: model = load_glove(...); keys = set(model.keys())
LGReturn ==
    /\ lpc = "load_glove"
    /\ li = Len(glove_lines)
    /\ lkeys' = KeysOf(lmodel)
    /\ lbound' = TRUE
    /\ lpc' = "return"
    /\ UNCHANGED <<lname, glove_lines, lmodel, li, lerr>>
    /\ UNCHANGED <<validVars, encodeVars, pairVars, distVars, randVars, canonVars, vocabVars, gtVars>>

\* return model, keys: reading an unassigned local raises UnboundLocalError
LEMReturn ==
    /\ lpc = "return"
    /\ IF lbound
       THEN /\ lpc' = "returned"
            /\ UNCHANGED lerr
       ELSE /\ lerr' = "UnboundLocalError"
            /\ lpc' = "raised"
    /\ UNCHANGED <<lname, glove_lines, lbound, lmodel, lkeys, li>>
    /\ UNCHANGED <<validVars, encodeVars, pairVars, distVars, randVars, canonVars, vocabVars, gtVars>>

NextLoad == LEMWord2vec \/ LEMGlove \/ LEMNoBranch \/ LGLine \/ LGReturn \/ LEMReturn

SpecLoad == InitLoad /\ [][NextLoad]_vars

\* C12: called with a name that is neither 'word2vec' nor 'glove',
\* load_embedding_model fails with UnsupportedModelError and loads nothing.
C12_UnsupportedNameRejected ==
    (lname \notin {"word2vec", "glove"} /\ lpc \in {"returned", "raised"}) =>
        /\ lpc = "raised"
        /\ lerr = "UnsupportedModelError"
        /\ lmodel = << >>
        /\ lkeys = {}

-----------------------------------------------------------------------------
(* preproc/03_create_gt_json.py: gt2dict on one transcript line behind the *)
(* header, get_subphrases and get_mmss_from_time.  Spans are Python's:     *)
(* <<start, end>> with a 0-based start and an exclusive end.               *)

MaxPieces == 2          \* timestamps written on the line

\* how a transcriber writes a timestamp: the bracket form fmt (the tail the
\* four patterns differ in), the minute with or without a leading zero
StampPool ==
    {[fmt |-> 1, mm |-> 1, ss |-> 2, pad |-> TRUE],
     [fmt |-> 1, mm |-> 5, ss |-> 30, pad |-> FALSE],
     [fmt |-> 2, mm |-> 12, ss |-> 5, pad |-> TRUE],
     [fmt |-> 4, mm |-> 1, ss |-> 2, pad |-> TRUE]}

\* the words that follow a timestamp
TextPool == {<<"h", "i", " ">>, <<"o", "k">>}

\* str(n) of a natural number
RECURSIVE Decimal(_)
Decimal(n) ==
    LET d == CHOOSE c \in Digits : DigitValue[c] = n % 10
    IN IF n < 10 THEN <<d>> ELSE Append(Decimal(n \div 10), d)

\* the separator behind TIME and the tail behind SS of the four patterns
PatternSep == << <<":", " ">>, <<":", " ">>, <<" ">>, <<" ">> >>
PatternTail == << <<"]", " ">>, <<"]", ":", " ">>, <<"]">>, <<"]", ":">> >>

\* the text of a written timestamp
Render(st) ==
    LET two(n) == IF n < 10 THEN <<"0">> \o Decimal(n) ELSE Decimal(n)
    IN <<"[", "T", "I", "M", "E">> \o PatternSep[st.fmt]
         \o (IF st.pad THEN two(st.mm) ELSE Decimal(st.mm)) \o <<":">> \o two(st.ss)
         \o PatternTail[st.fmt]

\* the line of the file: speaker, then every timestamp and its words
RenderLine(speaker, ps) ==
    <<speaker, " ">> \o ConcatRange([k \in 1..Len(ps) |-> Render(ps[k].stamp) \o ps[k].text],
                                    1, Len(ps))

\* s[a:b]
Slice(s, a, b) == IF a >= b THEN << >> ELSE SubSeq(s, a + 1, b)

\* s[i] of a 1-based position, "" outside the text
At(s, i) == IF i \in 1..Len(s) THEN s[i] ELSE ""

\* lit occurs in s at the 1-based position pos
HasAt(s, pos, lit) == \A k \in 1..Len(lit) : At(s, pos + k - 1) = lit[k]

\* re.match of pattern pt at the 1-based position p: the position of the last
\* matched character, 0 if there is no match.
\* '\[+TIME<sep>([0-9]|0[0-9]|1[0-9]|2[0-3]):[0-5][0-9]<tail>'
MatchEnd(s, p, pt) ==
    LET others == {i \in p..Len(s) : s[i] # "["}
        q == IF others = {} THEN Len(s) + 1 ELSE SetMin(others)
        lit == <<"T", "I", "M", "E">> \o PatternSep[pt]
        r == q + Len(lit)
        rest(pos) == /\ At(s, pos) = ":"
                     /\ At(s, pos + 1) \in {"0", "1", "2", "3", "4", "5"}
                     /\ At(s, pos + 2) \in Digits
                     /\ HasAt(s, pos + 3, PatternTail[pt])
        two == \/ At(s, r) \in {"0", "1"} /\ At(s, r + 1) \in Digits
               \/ At(s, r) = "2" /\ At(s, r + 1) \in {"0", "1", "2", "3"}
    IN IF ~(q > p /\ HasAt(s, q, lit)) THEN 0
       ELSE IF At(s, r) \in Digits /\ rest(r + 1) THEN r + 3 + Len(PatternTail[pt])
       ELSE IF two /\ rest(r + 2) THEN r + 4 + Len(PatternTail[pt])
       ELSE 0

\* [m.span() for m in re.finditer(p, line)], searching from the 1-based position from
RECURSIVE FindIter(_, _, _)
FindIter(s, pt, from) ==
    LET starts == {p \in from..Len(s) : MatchEnd(s, p, pt) > 0}
    IN IF starts = {} THEN << >>
       ELSE LET p0 == SetMin(starts)
                e == MatchEnd(s, p0, pt)
            IN << <<p0 - 1, e>> >> \o FindIter(s, pt, e + 1)

\* get_subphrases up to meta = list(reversed(meta))
ReversedMeta(s) ==
    LET found == FindIter(s, 1, 1) \o FindIter(s, 2, 1) \o FindIter(s, 3, 1) \o FindIter(s, 4, 1)
    IN [i \in 1..Len(found) |-> found[Len(found) + 1 - i]]

\* get_subphrases: the list of (ts, text) built from meta
get_subphrases(s) ==
    LET m == ReversedMeta(s)
    IN [i \in 1..Len(m) |->
          <<Slice(s, m[i][1], m[i][2]),
            IF i = Len(m) THEN Slice(s, m[i][2], Len(s))
            ELSE Slice(s, m[i][2], m[i + 1][1])>>]

\* [m.span() for m in re.finditer('([0-9]){2}', text)], from the 1-based position from
RECURSIVE DigitPairs(_, _)
DigitPairs(text, from) ==
    LET starts == {p \in from..(Len(text) - 1) : text[p] \in Digits /\ text[p + 1] \in Digits}
    IN IF starts = {} THEN << >>
       ELSE << <<SetMin(starts) - 1, SetMin(starts) + 1>> >> \o DigitPairs(text, SetMin(starts) + 2)

\* get_mmss_from_time: <<minute, seconds>>, or Unset for None
get_mmss_from_time(text) ==
    LET matches == DigitPairs(text, 1)
    IN IF Len(matches) # 2 THEN Unset
       ELSE <<ParseInt(Slice(text, matches[1][1], matches[1][2])),
              ParseInt(Slice(text, matches[2][1], matches[2][2]))>>

\* '[TIME:' in line
HasTimeColon(s) == \E p \in 1..Len(s) : HasAt(s, p, <<"[", "T", "I", "M", "E", ":">>)

\* lines = [x.strip() for x in lines]: one line behind the header
InitGt ==
    /\ pieces \in UNION {[1..k -> [stamp : StampPool, text : TextPool]] : k \in 0..MaxPieces}
    /\ \E speaker \in {"T", "p"} : line = Strip(RenderLine(speaker, pieces))
    /\ meta = << >>
    /\ subphrases = << >>
    /\ gi = 0
    /\ results = << >>
    /\ gerr = "none"
    /\ gpc = "line"
    /\ Idle({"gt"})

\* a line without '[TIME:' adds nothing
GDSkip ==
    /\ gpc = "line"
    /\ ~HasTimeColon(line)
    /\ gpc' = "returned"
    /\ UNCHANGED <<pieces, line, meta, subphrases, gi, results, gerr>>
    /\ UNCHANGED <<validVars, encodeVars, pairVars, distVars, randVars, canonVars, vocabVars, loadVars>>

\* elif '[TIME:' in line: speaker_id = line[0].upper(); subphrases = get_subphrases(line)
GDSubphrases ==
    /\ gpc = "line"
    /\ HasTimeColon(line)
    /\ meta' = ReversedMeta(line)
    /\ subphrases' = get_subphrases(line)
    /\ gpc' = "phrases"
    /\ UNCHANGED <<pieces, line, gi, results, gerr>>
    /\ UNCHANGED <<validVars, encodeVars, pairVars, distVars, randVars, canonVars, vocabVars, loadVars>>

\* one iteration of "for phrase in subphrases": mm, ss = get_mmss_from_time(time_str)
\* raises TypeError on None; ts = f'{mm * 60 + ss}.000s'; results.append(label)
GDPhrase ==
    /\ gpc = "phrases"
    /\ gi < Len(subphrases)
    /\ LET time_str == subphrases[gi + 1][1]
           text == subphrases[gi + 1][2]
           mmss == get_mmss_from_time(time_str)
           tokens == Split(text)
           words == KeepRange(tokens, [k \in 1..Len(tokens) |-> Len(tokens[k]) > 0], 1, Len(tokens))
           speaker_id == IF \E u \in DOMAIN UpperToLower : UpperToLower[u] = line[1]
                         THEN CHOOSE u \in DOMAIN UpperToLower : UpperToLower[u] = line[1]
                         ELSE line[1]
       IN IF mmss = Unset
          THEN /\ gerr' = "TypeError"
               /\ gpc' = "raised"
               /\ UNCHANGED <<gi, results>>
          ELSE /\ results' = Append(results,
                     [startTime |-> Decimal(mmss[1] * 60 + mmss[2]) \o <<".", "0", "0", "0", "s">>,
                      transcript |-> text,
                      words |-> words,
                      speakerTag |-> speaker_id])
               /\ gi' = gi + 1
               /\ UNCHANGED <<gerr, gpc>>
    /\ UNCHANGED <<pieces, line, meta, subphrases>>
    /\ UNCHANGED <<validVars, encodeVars, pairVars, distVars, randVars, canonVars, vocabVars, loadVars>>

\* results = {'results': results}; return audio_filenames, results
GDReturn ==
    /\ gpc = "phrases"
    /\ gi = Len(subphrases)
    /\ gpc' = "returned"
    /\ UNCHANGED <<pieces, line, meta, subphrases, gi, results, gerr>>
    /\ UNCHANGED <<validVars, encodeVars, pairVars, distVars, randVars, canonVars, vocabVars, loadVars>>

NextGt == GDSkip \/ GDSubphrases \/ GDPhrase \/ GDReturn

SpecGt == InitGt /\ [][NextGt]_vars

\* where the i-th written timestamp starts in the line (0-based); the line's
\* length for i past the last one
Offset(i) ==
    IF i > Len(pieces) THEN Len(line)
    ELSE Len(RenderLine("T", SubSeq(pieces, 1, i - 1)))

\* C14: for a line with k >= 1 timestamps get_subphrases returns exactly k
\* subphrases in left-to-right order: the i-th is the i-th timestamp of the
\* line with the text from the end of that timestamp up to the start of the
\* next timestamp (the end of the line for the last one); no timestamp is
\* reported twice and no text comes from before its timestamp.
C14_SubphrasesLeftToRight ==
    (Len(pieces) >= 1 /\ HasTimeColon(line) /\ gpc # "line") =>
        /\ Len(subphrases) = Len(pieces)
        /\ \A i \in 1..Len(subphrases) :
              /\ meta[i][1] = Offset(i)
              /\ subphrases[i][1] = Slice(line, meta[i][1], meta[i][2])
              /\ subphrases[i][2] = Slice(line, meta[i][2], Offset(i + 1))

\* the written timestamp that starts at the 0-based position start
StampAt(start) == pieces[CHOOSE j \in 1..Len(pieces) : Offset(j) = start].stamp

\* C15: every timestamp get_subphrases recognises (a single-digit minute
\* included) is converted into its minutes and seconds: gt2dict never fails on
\* it and emits the start time minutes*60+seconds for its subphrase.
C15_RecognisedStampConverted ==
    (gpc \in {"returned", "raised"}) =>
        /\ gpc = "returned"
        /\ gerr = "none"
        /\ Len(results) = Len(subphrases)
        /\ \A i \in 1..Len(results) :
              results[i].startTime =
                  Decimal(StampAt(meta[i][1]).mm * 60 + StampAt(meta[i][1]).ss)
                      \o <<".", "0", "0", "0", "s">>

====
